---- MODULE Spec2Model ----
(***************************************************************************)
(* A model of backend/regret_model.py (classify_regret and the process-    *)
(* wide _cached_model_name).                                               *)
(*                                                                         *)
(* Python strings are sequences of one-character strings, indexed from 0   *)
(* as in the source (At, Slice, Find).  Python values are records          *)
(*   [t |-> type tag, n |-> integer part, s |-> characters, m |-> members] *)
(* so that values of different Python types can be compared.               *)
(***************************************************************************)
EXTENDS Integers, Sequences, FiniteSets, TLC

(***************************************************************************)
(* Python str operations                                                   *)
(***************************************************************************)
At(s, i) == s[i + 1]

\* s[a:b]
Slice(s, a, b) == SubSeq(s, a + 1, b)

\* s[a:]
SliceFrom(s, a) == SubSeq(s, a + 1, Len(s))

Whitespace == {" ", "\n", "\t", "\r"}

RECURSIVE LStrip(_)
LStrip(s) ==
  IF Len(s) > 0 /\ At(s, 0) \in Whitespace THEN LStrip(SliceFrom(s, 1)) ELSE s

RECURSIVE RStrip(_)
RStrip(s) ==
  IF Len(s) > 0 /\ At(s, Len(s) - 1) \in Whitespace
  THEN RStrip(Slice(s, 0, Len(s) - 1)) ELSE s

\* str.strip()
Strip(s) == RStrip(LStrip(s))

\* str.startswith(p)
StartsWith(s, p) == Len(s) >= Len(p) /\ Slice(s, 0, Len(p)) = p

\* str.endswith(p)
EndsWith(s, p) == Len(s) >= Len(p) /\ SliceFrom(s, Len(s) - Len(p)) = p

\* p in s
Contains(p, s) ==
  \E i \in 0..(Len(s) - Len(p)) : Slice(s, i, i + Len(p)) = p

\* s.find(c): the least index holding character c, or -1
Find(s, c) ==
  IF \E i \in 0..(Len(s) - 1) : At(s, i) = c
  THEN CHOOSE i \in 0..(Len(s) - 1) :
         At(s, i) = c /\ \A j \in 0..(i - 1) : At(s, j) # c
  ELSE -1

UpperCase == <<"A","B","C","D","E","F","G","H","I","J","K","L","M",
               "N","O","P","Q","R","S","T","U","V","W","X","Y","Z">>
LowerCase == <<"a","b","c","d","e","f","g","h","i","j","k","l","m",
               "n","o","p","q","r","s","t","u","v","w","x","y","z">>

LowerChar(c) ==
  IF \E i \in 1..Len(UpperCase) : UpperCase[i] = c
  THEN LowerCase[CHOOSE i \in 1..Len(UpperCase) : UpperCase[i] = c]
  ELSE c

\* str.lower()
Lower(s) == [i \in 1..Len(s) |-> LowerChar(s[i])]

DigitChars == <<"0","1","2","3","4","5","6","7","8","9">>
Digits == {DigitChars[i] : i \in 1..Len(DigitChars)}
DigitVal(c) == (CHOOSE i \in 1..Len(DigitChars) : DigitChars[i] = c) - 1

(***************************************************************************)
(* Python values                                                           *)
(***************************************************************************)
PyNone == [t |-> "None", n |-> 0, s |-> <<>>, m |-> <<>>]
PyInt(k) == [t |-> "int", n |-> k, s |-> <<>>, m |-> <<>>]
PyBool(b) == [t |-> "bool", n |-> IF b THEN 1 ELSE 0, s |-> <<>>, m |-> <<>>]
\* a float keeps its literal in s and its integer part (truncated toward
\* zero) in n
PyFloat(k, lit) == [t |-> "float", n |-> k, s |-> lit, m |-> <<>>]
PyStr(chars) == [t |-> "str", n |-> 0, s |-> chars, m |-> <<>>]
PyList(elems) == [t |-> "list", n |-> 0, s |-> <<>>, m |-> elems]
\* a dict is the sequence of its <<key, value>> items in insertion order
PyDict(items) == [t |-> "dict", n |-> 0, s |-> <<>>, m |-> items]

HasKey(d, k) == \E i \in 1..Len(d.m) : d.m[i][1] = k

\* d[k] for a key d holds
Lookup(d, k) == d.m[CHOOSE i \in 1..Len(d.m) : d.m[i][1] = k][2]

\* d[k] = v
SetItem(items, k, v) ==
  IF \E i \in 1..Len(items) : items[i][1] = k
  THEN [i \in 1..Len(items) |-> IF items[i][1] = k THEN <<k, v>> ELSE items[i]]
  ELSE Append(items, <<k, v>>)

\* dict.get(k, default)
Get(d, k, default) == IF HasKey(d, k) THEN Lookup(d, k) ELSE default

(***************************************************************************)
(* json.loads, on the JSON grammar without exponents, \b and \uXXXX        *)
(* escapes and the NaN/Infinity literals.  A parse step returns            *)
(* [ok, val, end]: success, the value, the index after it.                 *)
(***************************************************************************)
ParseFail == [ok |-> FALSE, val |-> PyNone, end |-> 0]
ParseOk(v, e) == [ok |-> TRUE, val |-> v, end |-> e]

RECURSIVE SkipWhitespace(_, _)
SkipWhitespace(s, i) ==
  IF i < Len(s) /\ At(s, i) \in Whitespace THEN SkipWhitespace(s, i + 1) ELSE i

\* the character an escape \e stands for
Unescape(e) ==
  CASE e = "n" -> "\n"
    [] e = "t" -> "\t"
    [] e = "r" -> "\r"
    [] e = "f" -> "\f"
    [] OTHER -> e

EscapeChars == {"\"", "\\", "/", "n", "t", "r", "f"}
ControlChars == {"\n", "\t", "\r", "\f"}

\* One character of a string body.  st = [acc, esc, end, ok, done]: the
\* characters so far, whether a backslash precedes, the index after the
\* closing quote, whether the body is well-formed so far, whether the body
\* has ended.
StringStep(s, i, st) ==
  IF st.esc
  THEN IF At(s, i) \in EscapeChars
       THEN [st EXCEPT !.acc = Append(st.acc, Unescape(At(s, i))), !.esc = FALSE]
       ELSE [st EXCEPT !.ok = FALSE, !.done = TRUE]
  ELSE IF At(s, i) = "\"" THEN [st EXCEPT !.end = i + 1, !.done = TRUE]
  ELSE IF At(s, i) = "\\" THEN [st EXCEPT !.esc = TRUE]
  ELSE IF At(s, i) \in ControlChars THEN [st EXCEPT !.ok = FALSE, !.done = TRUE]
  ELSE [st EXCEPT !.acc = Append(st.acc, At(s, i))]

\* StringStep over the indices lo..hi-1 in order, until st.done; the range
\* is halved so that the evaluation nests only logarithmically deep
RECURSIVE StringLoop(_, _, _, _)
StringLoop(s, lo, hi, st) ==
  IF st.done \/ lo >= hi THEN st
  ELSE IF hi - lo = 1 THEN StringStep(s, lo, st)
  ELSE StringLoop(s, (lo + hi) \div 2, hi,
                  StringLoop(s, lo, (lo + hi) \div 2, st))

\* the string whose opening quote is at i - 1
ScanString(s, i, acc) ==
  LET st == StringLoop(s, i, Len(s),
                       [acc |-> acc, esc |-> FALSE, end |-> 0, ok |-> TRUE,
                        done |-> FALSE])
  IN  IF st.done /\ st.ok THEN ParseOk(PyStr(st.acc), st.end) ELSE ParseFail

\* the index after the run of digits that starts at i
RECURSIVE ScanDigits(_, _)
ScanDigits(s, i) ==
  IF i < Len(s) /\ At(s, i) \in Digits THEN ScanDigits(s, i + 1) ELSE i

RECURSIVE DigitsValue(_)
DigitsValue(ds) ==
  IF ds = <<>> THEN 0
  ELSE 10 * DigitsValue(Slice(ds, 0, Len(ds) - 1)) + DigitVal(At(ds, Len(ds) - 1))

\* -?(0|[1-9][0-9]*)(\.[0-9]+)?
ParseNumber(s, i) ==
  LET neg == i < Len(s) /\ At(s, i) = "-"
      j == IF neg THEN i + 1 ELSE i
      intEnd == IF j < Len(s) /\ At(s, j) = "0" THEN j + 1 ELSE ScanDigits(s, j)
      fracEnd == IF intEnd < Len(s) /\ At(s, intEnd) = "."
                    /\ ScanDigits(s, intEnd + 1) > intEnd + 1
                 THEN ScanDigits(s, intEnd + 1) ELSE intEnd
      mag == DigitsValue(Slice(s, j, intEnd))
      val == IF neg THEN 0 - mag ELSE mag
  IN  IF intEnd = j THEN ParseFail
      ELSE IF fracEnd > intEnd
        THEN ParseOk(PyFloat(val, Slice(s, i, fracEnd)), fracEnd)
      ELSE ParseOk(PyInt(val), intEnd)

LitNull == <<"n","u","l","l">>
LitTrue == <<"t","r","u","e">>
LitFalse == <<"f","a","l","s","e">>

RECURSIVE ParseValue(_, _)
RECURSIVE ParseMembers(_, _, _)
RECURSIVE ParseElements(_, _, _)

ParseValue(s, i) ==
  IF i >= Len(s) THEN ParseFail
  ELSE IF At(s, i) = "\"" THEN ScanString(s, i + 1, <<>>)
  ELSE IF At(s, i) = "{"
    THEN LET j == SkipWhitespace(s, i + 1)
         IN  IF j < Len(s) /\ At(s, j) = "}" THEN ParseOk(PyDict(<<>>), j + 1)
             ELSE ParseMembers(s, j, <<>>)
  ELSE IF At(s, i) = "["
    THEN LET j == SkipWhitespace(s, i + 1)
         IN  IF j < Len(s) /\ At(s, j) = "]" THEN ParseOk(PyList(<<>>), j + 1)
             ELSE ParseElements(s, j, <<>>)
  ELSE IF StartsWith(SliceFrom(s, i), LitNull) THEN ParseOk(PyNone, i + 4)
  ELSE IF StartsWith(SliceFrom(s, i), LitTrue) THEN ParseOk(PyBool(TRUE), i + 4)
  ELSE IF StartsWith(SliceFrom(s, i), LitFalse) THEN ParseOk(PyBool(FALSE), i + 5)
  ELSE ParseNumber(s, i)

\* the members of an object from the key whose opening quote is at i
ParseMembers(s, i, items) ==
  IF ~(i < Len(s) /\ At(s, i) = "\"") THEN ParseFail
  ELSE LET k == ScanString(s, i + 1, <<>>)
           colon == SkipWhitespace(s, k.end)
           v == ParseValue(s, SkipWhitespace(s, colon + 1))
           e == SkipWhitespace(s, v.end)
       IN  IF ~k.ok THEN ParseFail
           ELSE IF ~(colon < Len(s) /\ At(s, colon) = ":") THEN ParseFail
           ELSE IF ~v.ok THEN ParseFail
           ELSE IF e >= Len(s) THEN ParseFail
           ELSE IF At(s, e) = "}"
             THEN ParseOk(PyDict(SetItem(items, k.val.s, v.val)), e + 1)
           ELSE IF At(s, e) = ","
             THEN ParseMembers(s, SkipWhitespace(s, e + 1),
                               SetItem(items, k.val.s, v.val))
           ELSE ParseFail

\* the elements of an array from the value at i
ParseElements(s, i, elems) ==
  LET v == ParseValue(s, i)
      e == SkipWhitespace(s, v.end)
  IN  IF ~v.ok THEN ParseFail
      ELSE IF e >= Len(s) THEN ParseFail
      ELSE IF At(s, e) = "]" THEN ParseOk(PyList(Append(elems, v.val)), e + 1)
      ELSE IF At(s, e) = ","
        THEN ParseElements(s, SkipWhitespace(s, e + 1), Append(elems, v.val))
      ELSE ParseFail

\* json.loads(s): [ok |-> FALSE] stands for json.JSONDecodeError
JsonLoads(s) ==
  LET r == ParseValue(s, SkipWhitespace(s, 0))
  IN  IF r.ok /\ SkipWhitespace(s, r.end) = Len(s)
      THEN [ok |-> TRUE, val |-> r.val]
      ELSE [ok |-> FALSE, val |-> PyNone]

(***************************************************************************)
(* int(x)                                                                  *)
(***************************************************************************)
NoException == [type |-> "", msg |-> <<>>]
\* the message text of an exception the interpreter raises is left empty
ValueError == [type |-> "ValueError", msg |-> <<>>]
TypeError == [type |-> "TypeError", msg |-> <<>>]
AttributeError == [type |-> "AttributeError", msg |-> <<>>]
\* an exception of the upstream client, str(e) = msg
UpstreamError(msg) == [type |-> "Exception", msg |-> msg]

\* int(s) for a str: surrounding whitespace, an optional sign, digits
IntOfStr(chars) ==
  LET t == Strip(chars)
      signed == Len(t) > 0 /\ At(t, 0) \in {"+", "-"}
      ds == IF signed THEN SliceFrom(t, 1) ELSE t
      mag == DigitsValue(ds)
  IN  IF Len(ds) > 0 /\ \A i \in 1..Len(ds) : ds[i] \in Digits
      THEN [exc |-> NoException,
            val |-> PyInt(IF signed /\ At(t, 0) = "-" THEN 0 - mag ELSE mag)]
      ELSE [exc |-> ValueError, val |-> PyNone]

IntOf(x) ==
  CASE x.t = "int" -> [exc |-> NoException, val |-> x]
    [] x.t = "bool" -> [exc |-> NoException, val |-> PyInt(x.n)]
    [] x.t = "float" -> [exc |-> NoException, val |-> PyInt(x.n)]
    [] x.t = "str" -> IntOfStr(x.s)
    [] OTHER -> [exc |-> TypeError, val |-> PyNone]

(***************************************************************************)
(* regret_model.py                                                         *)
(***************************************************************************)
AVAILABLE_MODELS ==
  << <<"g","e","m","m","a","-","3","-","2","7","b","-","i","t">>,
     <<"g","e","m","m","a","-","3","-","2","7","b","-","i","n","s","t","r","u","c","t">>,
     <<"g","e","m","i","n","i","-","2",".","5","-","f","l","a","s","h">> >>

\* _cached_model_name = None
None == <<"N","o","n","e","T","y","p","e">>

\* mutant: one retry more
max_retries_more == 3 + 1

max_retries == 3
retry_delay == 1

K_regret_score == <<"r","e","g","r","e","t","_","s","c","o","r","e">>
K_reason == <<"r","e","a","s","o","n">>
K_intervention_strength ==
  <<"i","n","t","e","r","v","e","n","t","i","o","n","_","s","t","r","e","n","g","t","h">>
K_llm_message == <<"l","l","m","_","m","e","s","s","a","g","e">>
K_future_regret_simulation ==
  <<"f","u","t","u","r","e","_","r","e","g","r","e","t","_","s","i","m","u","l","a","t","i","o","n">>

S_NONE == <<"N","O","N","E">>
S_WARN == <<"W","A","R","N">>
S_PUZZLE == <<"P","U","Z","Z","L","E">>
S_BLOCK_HARD == <<"B","L","O","C","K","_","H","A","R","D">>
S_FailedToParse ==
  <<"F","a","i","l","e","d"," ","t","o"," ","p","a","r","s","e"," ",
    "r","e","s","p","o","n","s","e",".">>
S_ErrorOccurred == <<"E","r","r","o","r"," ","o","c","c","u","r","r","e","d",".">>
S_ApiErrorPrefix == <<"A","P","I"," ","e","r","r","o","r",":"," ">>
S_ApiErrorOccurred ==
  <<"A","P","I"," ","e","r","r","o","r"," ","o","c","c","u","r","r","e","d",".">>
S_NoReasonGiven == <<"N","o"," ","r","e","a","s","o","n"," ","g","i","v","e","n",".">>
S_YouSure ==
  <<"Y","o","u"," ","s","u","r","e"," ","a","b","o","u","t"," ","t","h","i","s","?">>
\* the backquote: a TLA+ string cannot hold the character itself
Backquote == "BACKQUOTE"
S_Fence == <<Backquote, Backquote, Backquote>>
S_FenceJson == S_Fence \o <<"j","s","o","n">>
S_gemma == <<"g","e","m","m","a">>
S_404 == <<"4","0","4">>
S_not_found == <<"n","o","t"," ","f","o","u","n","d">>
S_not_supported == <<"n","o","t"," ","s","u","p","p","o","r","t","e","d">>
S_429 == <<"4","2","9">>
S_quota == <<"q","u","o","t","a">>
S_rate_limit == <<"r","a","t","e"," ","l","i","m","i","t">>

\* is_gemma_model = "gemma" in model_name.lower()
is_gemma_model(model_name) == Contains(S_gemma, Lower(model_name))

\* the arguments of GenerativeModel(...) and generate_content(...)
GenerationRequest(model_name, prompt) ==
  IF is_gemma_model(model_name)
  THEN [model_name |-> model_name, system_instruction |-> FALSE,
        prompt_embeds_instructions |-> TRUE, response_mime_type |-> FALSE,
        user_prompt |-> prompt]
  ELSE [model_name |-> model_name, system_instruction |-> TRUE,
        prompt_embeds_instructions |-> FALSE, response_mime_type |-> TRUE,
        user_prompt |-> prompt]

\* the branch of the except clause an error message takes
IsNotFound(error_str) ==
  \/ Contains(S_404, error_str)
  \/ Contains(S_not_found, Lower(error_str))
  \/ Contains(S_not_supported, Lower(error_str))

IsRateLimit(error_str) ==
  /\ ~IsNotFound(error_str)
  /\ \/ Contains(S_429, error_str)
     \/ Contains(S_quota, Lower(error_str))
     \/ Contains(S_rate_limit, Lower(error_str))

IsOtherError(error_str) == ~IsNotFound(error_str) /\ ~IsRateLimit(error_str)

RECURSIVE Pow2(_)
Pow2(k) == IF k = 0 THEN 1 ELSE 2 * Pow2(k - 1)

\* mutant: the backoff does not grow
RateLimitWait_Constant(attempt) == retry_delay

\* wait_time = retry_delay * (2 ** attempt)
RateLimitWait(attempt) == retry_delay * Pow2(attempt)

\* time.sleep(retry_delay)
OtherErrorWait(attempt) == retry_delay

\* mutant: the cache is never written
CacheAfterSuccess_Never(cached, model_name) == cached

\* mutant: the cache is written on every success
CacheAfterSuccess_Always(cached, model_name) == model_name

\* if not _cached_model_name: _cached_model_name = model_name
CacheAfterSuccess(cached, model_name) ==
  IF cached = None THEN model_name ELSE cached

\* the Markdown clean-up: strip, drop a leading fence (with or without the
\* json tag), drop a trailing fence
StripFences(text) ==
  LET t0 == Strip(text)
      t1 == IF StartsWith(t0, S_FenceJson) THEN Strip(SliceFrom(t0, 7))
            ELSE IF StartsWith(t0, S_Fence) THEN Strip(SliceFrom(t0, 3))
            ELSE t0
  IN  IF EndsWith(t1, S_Fence) THEN Strip(Slice(t1, 0, Len(t1) - 3)) ELSE t1

\* one iteration of the brace-counting loop; done stands for its break
BraceStep(s, i, st) ==
  IF At(s, i) = "{" THEN [st EXCEPT !.brace_count = st.brace_count + 1]
  ELSE IF At(s, i) = "}"
    THEN IF st.brace_count - 1 = 0
         THEN [brace_count |-> 0, end_idx |-> i, done |-> TRUE]
         ELSE [st EXCEPT !.brace_count = st.brace_count - 1]
  ELSE st

\* BraceStep over the indices lo..hi-1 in order, until the break; the range
\* is halved so that the evaluation nests only logarithmically deep
RECURSIVE BraceLoop(_, _, _, _)
BraceLoop(s, lo, hi, st) ==
  IF st.done \/ lo >= hi THEN st
  ELSE IF hi - lo = 1 THEN BraceStep(s, lo, st)
  ELSE BraceLoop(s, (lo + hi) \div 2, hi,
                 BraceLoop(s, lo, (lo + hi) \div 2, st))

\* mutant: the scan stops at the first closing brace, whatever the depth
BraceScan_FirstClose(response_text, start_idx) ==
  IF \E i \in start_idx..(Len(response_text) - 1) : At(response_text, i) = "}"
  THEN [brace_count |-> 0, done |-> TRUE,
        end_idx |-> start_idx + Find(SliceFrom(response_text, start_idx), "}")]
  ELSE [brace_count |-> 1, done |-> FALSE, end_idx |-> start_idx]

\* brace_count = 0; end_idx = start_idx;
\* for i in range(start_idx, len(response_text)): ...
BraceScan(response_text, start_idx) ==
  BraceLoop(response_text, start_idx, Len(response_text),
            [brace_count |-> 0, end_idx |-> start_idx, done |-> FALSE])

\* start_idx = response_text.find('{')
StartIdx(response_text) == Find(response_text, "{")

\* the text handed to json.loads
ExtractJson(text) ==
  LET response_text == StripFences(text)
      start_idx == StartIdx(response_text)
      scan == BraceScan(response_text, start_idx)
  IN  IF start_idx # -1 /\ scan.brace_count = 0
      THEN Slice(response_text, start_idx, scan.end_idx + 1)
      ELSE response_text

\* the fallback of except (json.JSONDecodeError, AttributeError)
ParseFailureData ==
  PyDict(<< <<K_regret_score, PyInt(0)>>,
            <<K_reason, PyStr(S_FailedToParse)>>,
            <<K_intervention_strength, PyStr(S_NONE)>>,
            <<K_llm_message, PyStr(S_ErrorOccurred)>>,
            <<K_future_regret_simulation, PyStr(<<>>)>> >>)

\* mutant: the API-error fallback reuses the parse-failure fallback
ApiErrorData_ParseFallback(e) == ParseFailureData

\* the fallback of the outer except Exception as e
ApiErrorData(e) ==
  PyDict(<< <<K_regret_score, PyInt(0)>>,
            <<K_reason, PyStr(S_ApiErrorPrefix \o e.msg)>>,
            <<K_intervention_strength, PyStr(S_NONE)>>,
            <<K_llm_message, PyStr(S_ApiErrorOccurred)>>,
            <<K_future_regret_simulation, PyStr(<<>>)>> >>)

\* mutant: the decode error is not caught by the inner try and lands in the
\* outer except
ParseResponse_OuterExcept(text) ==
  LET parsed == JsonLoads(ExtractJson(text))
  IN  IF parsed.ok THEN parsed.val ELSE ApiErrorData(ValueError)

\* data after the inner try: the parsed text, or the parse-failure fallback
ParseResponse(text) ==
  LET parsed == JsonLoads(ExtractJson(text))
  IN  IF parsed.ok THEN parsed.val ELSE ParseFailureData

NoResult ==
  [regret_score |-> PyNone, reason |-> PyNone, intervention_strength |-> PyNone,
   llm_message |-> PyNone, simulation |-> PyNone]

\* the "sanitize" block and the return: [exc, result], exc the exception
\* that leaves classify_regret (NoException when it returns)
Sanitize(data) ==
  LET score == IntOf(Get(data, K_regret_score, PyInt(0)))
  IN  IF data.t # "dict" THEN [exc |-> AttributeError, result |-> NoResult]
      ELSE IF score.exc # NoException THEN [exc |-> score.exc, result |-> NoResult]
      ELSE [exc |-> NoException,
            result |->
              [regret_score |-> score.val,
               reason |-> Get(data, K_reason, PyStr(S_NoReasonGiven)),
               intervention_strength |->
                 Get(data, K_intervention_strength, PyStr(S_NONE)),
               llm_message |-> Get(data, K_llm_message, PyStr(S_YouSure)),
               simulation |-> Get(data, K_future_regret_simulation, PyStr(<<>>))]]

(***************************************************************************)
(* main.py: the /classify handler around classify_regret                   *)
(***************************************************************************)
S_ValidationErrorPrefix ==
  <<"V","a","l","i","d","a","t","i","o","n"," ","e","r","r","o","r",":"," ">>
S_InvalidInput == <<"I","n","v","a","l","i","d"," ","i","n","p","u","t",".">>
S_BackendErrorPrefix ==
  <<"B","a","c","k","e","n","d"," ","e","r","r","o","r",":"," ">>
S_BackendErrorOccurred ==
  <<"B","a","c","k","e","n","d"," ","e","r","r","o","r"," ",
    "o","c","c","u","r","r","e","d",".">>
S_InvalidScore ==
  <<"I","n","v","a","l","i","d"," ","r","e","g","r","e","t","_","s","c","o","r","e",
    " ","i","n"," ","r","e","s","p","o","n","s","e">>

\* no answer yet
NoHttpResponse == [status_code |-> 0, content |-> NoResult]

\* the content of a JSONResponse of the two except clauses
ErrorContent(prefix, e, message) ==
  [regret_score |-> PyInt(0), reason |-> PyStr(prefix \o e.msg),
   intervention_strength |-> PyStr(S_NONE), llm_message |-> PyStr(message),
   simulation |-> PyStr(<<>>)]

\* the exception inside the try of the handler, given how classify_regret
\* ended: its own exception, or the ValueError of the isinstance check.
\* The length check of line 87 never fires: ClassifyRequest has bounded
\* typed_text to 10000 characters before the handler runs.
HandlerException(outcome) ==
  IF outcome.exc # NoException THEN outcome.exc
  ELSE IF outcome.result.regret_score.t \notin {"int", "bool"}
       THEN [type |-> "ValueError", msg |-> S_InvalidScore]
       ELSE NoException

\* mutant: no except ValueError clause
classify_NoValueErrorClause(outcome) ==
  IF HandlerException(outcome) = NoException
  THEN [status_code |-> 200, content |-> outcome.result]
  ELSE [status_code |-> 500,
        content |-> ErrorContent(S_BackendErrorPrefix, HandlerException(outcome),
                                 S_BackendErrorOccurred)]

\* the answer of the handler, outcome being how classify_regret ended
classify(outcome) ==
  LET e == HandlerException(outcome)
  IN  IF e = NoException
      THEN [status_code |-> 200, content |-> outcome.result]
      ELSE IF e.type = "ValueError"
      THEN [status_code |-> 400,
            content |-> ErrorContent(S_ValidationErrorPrefix, e, S_InvalidInput)]
      ELSE [status_code |-> 500,
            content |-> ErrorContent(S_BackendErrorPrefix, e,
                                     S_BackendErrorOccurred)]

(***************************************************************************)
(* The "crude time interpretation"                                         *)
(***************************************************************************)
S_utc == <<"+","0","0",":","0","0">>

\* time_iso.replace("Z", "+00:00")
RECURSIVE ReplaceZ(_)
ReplaceZ(s) ==
  IF \A i \in 1..Len(s) : s[i] # "Z" THEN s
  ELSE LET z == Find(s, "Z")
       IN  Slice(s, 0, z) \o S_utc \o ReplaceZ(SliceFrom(s, z + 1))

TwoDigits(s, i) == At(s, i) \in Digits /\ At(s, i + 1) \in Digits
Num2(s, i) == 10 * DigitVal(At(s, i)) + DigitVal(At(s, i + 1))

\* HH:MM at i
IsClock(s, i) ==
  /\ TwoDigits(s, i) /\ At(s, i + 2) = ":" /\ TwoDigits(s, i + 3)
  /\ Num2(s, i) < 24 /\ Num2(s, i + 3) < 60

\* datetime.fromisoformat(s) on the form YYYY-MM-DDTHH:MM:SS[+HH:MM]; any
\* other text stands for ValueError
FromIsoFormat(s) ==
  LET wellFormed ==
        /\ Len(s) \in {19, 25}
        /\ \A i \in 0..3 : At(s, i) \in Digits
        /\ At(s, 4) = "-" /\ TwoDigits(s, 5) /\ Num2(s, 5) \in 1..12
        /\ At(s, 7) = "-" /\ TwoDigits(s, 8) /\ Num2(s, 8) \in 1..31
        /\ At(s, 10) = "T" /\ IsClock(s, 11)
        /\ At(s, 16) = ":" /\ TwoDigits(s, 17) /\ Num2(s, 17) < 60
        /\ Len(s) = 25 => (At(s, 19) \in {"+", "-"} /\ IsClock(s, 20))
  IN  IF wellFormed THEN [ok |-> TRUE, hour |-> Num2(s, 11)]
      ELSE [ok |-> FALSE, hour |-> 0]

\* hour: None unless time_iso is a non-empty string that parses
HourOf(time_iso) ==
  IF time_iso.t = "str" /\ Len(time_iso.s) > 0
  THEN LET dt == FromIsoFormat(ReplaceZ(time_iso.s))
       IN  IF dt.ok THEN PyInt(dt.hour) ELSE PyNone
  ELSE PyNone

\* user_prompt
UserPrompt(payload) ==
  [url |-> payload.url, typed_text |-> payload.typed_text,
   time_iso |-> payload.time_iso, hour |-> HourOf(payload.time_iso),
   context |-> payload.context]

(***************************************************************************)
(* Inputs: the payloads of the callers, the error messages and the         *)
(* response texts of the upstream service                                  *)
(***************************************************************************)
MaxRequests == 2

P_text ==
  <<"I"," ","q","u","i","t"," ","m","y"," ","j","o","b",","," ",
    "s","e","n","d","i","n","g"," ","n","o","w">>
P_url == <<"m","a","i","l",".","e","x","a","m","p","l","e",".","c","o","m">>
P_time ==
  <<"2","0","2","4","-","0","1","-","0","1","T","0","2",":","3","0",":","0","0","Z">>
P_badtime == <<"s","o","o","n">>

ScenarioPayload ==
  [typed_text |-> PyStr(P_text), url |-> PyStr(P_url),
   time_iso |-> PyStr(P_time), context |-> PyNone]

Payloads ==
  {[typed_text |-> PyStr(P_text), url |-> PyStr(P_url), time_iso |-> t,
    context |-> PyNone] : t \in {PyNone, PyStr(P_time), PyStr(P_badtime)}}

E_404 == <<"4","0","4"," ","m","o","d","e","l"," ","i","s"," ","g","o","n","e">>
E_QuotaNotSupported ==
  <<"Q","u","o","t","a"," ","N","o","t"," ","S","u","p","p","o","r","t","e","d">>
E_Quota == <<"Q","u","o","t","a"," ","e","x","c","e","e","d","e","d">>
E_Reset == <<"c","o","n","n","e","c","t","i","o","n"," ","r","e","s","e","t">>

ErrorMessages == {E_404, E_QuotaNotSupported, E_Quota, E_Reset}

\* JSON text building
Quote(chars) == <<"\"">> \o chars \o <<"\"">>
Member(key, valueText) == Quote(key) \o <<":", " ">> \o valueText
Sep == <<",", " ">>

\* the text of a verdict object holding the five keys with these value texts
VerdictText(score, reason, strength, message, simulation) ==
  <<"{">> \o Member(K_regret_score, score) \o Sep
          \o Member(K_reason, reason) \o Sep
          \o Member(K_intervention_strength, strength) \o Sep
          \o Member(K_llm_message, message) \o Sep
          \o Member(K_future_regret_simulation, simulation) \o <<"}">>

V_85 == <<"8","5">>
V_Late == Quote(<<"L","a","t","e">>)
V_Block == Quote(S_BLOCK_HARD)
V_Zz == Quote(<<"Z","z">>)
V_HR == Quote(<<"H","R">>)

\* a well-typed verdict
T_Good == VerdictText(V_85, V_Late, V_Block, V_Zz, V_HR)
\* string values holding braces
T_CloseBrace == VerdictText(V_85, Quote(<<"a","}","b">>), V_Block, V_Zz, V_HR)
T_OpenBrace == VerdictText(V_85, Quote(<<"a","{","b">>), V_Block, V_Zz, V_HR)
T_CloseOpen == VerdictText(V_85, Quote(<<"}","{">>), V_Block, V_Zz, V_HR)
T_OpenClose == VerdictText(V_85, Quote(<<"{","}">>), V_Block, V_Zz, V_HR)
\* a nested object and array as a value
T_Nested ==
  VerdictText(V_85, V_Late, V_Block, V_Zz,
              <<"{">> \o Member(<<"a">>, <<"[","1",",","{","}","]">>) \o <<"}">>)
\* scores of other types
T_ScoreStr == VerdictText(Quote(<<" ","8","5">>), V_Late, V_Block, V_Zz, V_HR)
T_ScoreFloat == VerdictText(<<"-","8","5",".","9">>, V_Late, V_Block, V_Zz, V_HR)
T_ScoreWord == VerdictText(Quote(<<"h","i">>), V_Late, V_Block, V_Zz, V_HR)
T_ScoreNull == VerdictText(LitNull, V_Late, V_Block, V_Zz, V_HR)
\* values of other types than the strings and the enum asked for
T_BadTypes == VerdictText(LitTrue, <<"7">>, Quote(<<"F","O","O">>), LitNull, V_HR)
\* objects lacking keys
T_ScoreOnly == <<"{">> \o Member(K_regret_score, <<"5">>) \o <<"}">>
T_NoScore == <<"{">> \o Member(K_reason, V_Late) \o Sep
                     \o Member(K_llm_message, V_Zz) \o <<"}">>
T_Empty == <<"{", "}">>
T_ScoreWordOnly == <<"{">> \o Member(K_regret_score, Quote(<<"h","i">>)) \o <<"}">>
\* JSON that is no object
T_List == <<"[","1","]">>
T_Number == <<"5">>
\* no JSON
T_Sorry ==
  <<"S","o","r","r","y",","," ","I"," ","c","a","n","n","o","t"," ",
    "h","e","l","p"," ","w","i","t","h"," ","t","h","a","t",".">>
T_Unbalanced == <<"{">> \o Member(K_regret_score, <<"5">>)
T_SingleQuotes == <<"{","'","a","'",":"," ","1","}">>

X_Sure == <<"S","u","r","e",":"," ">>
X_Braces == <<"U","s","e"," ","{","x","}",":"," ">>
X_Bye == <<" ","B","y","e",".">>
X_CloseBrace == <<" ","o","k"," ","}"," ">>
X_FenceJsonLine == S_FenceJson \o <<"\n">>
X_FenceLine == S_Fence \o <<"\n">>
X_LineFence == <<"\n">> \o S_Fence

\* pre-prose, opening fence, object, closing fence, post-prose
Wrap(pre, open, object, close, post) == pre \o open \o object \o close \o post

Texts ==
  { T_Good, T_CloseBrace, T_ScoreWord, T_BadTypes, T_List, T_Sorry,
    Wrap(X_Sure, X_FenceJsonLine, T_Good, X_LineFence, X_Bye) }

\* the larger set of texts: objects in every combination of prose and
\* fences around them, and texts that hold no object
Pres == {<<>>, X_Sure, X_Braces, X_CloseBrace}
Opens == {<<>>, X_FenceJsonLine, X_FenceLine, S_Fence}
Closes == {<<>>, X_LineFence}
Posts == {<<>>, X_Bye, X_CloseBrace}
WrappedObjects ==
  { T_Good, T_CloseBrace, T_OpenBrace, T_CloseOpen, T_OpenClose, T_Nested,
    T_ScoreOnly, T_ScoreWord }

WrappedCases ==
  { [text |-> Wrap(pre, open, object, close, post), pre |-> pre, open |-> open,
     object |-> object, close |-> close, post |-> post] :
      pre \in Pres, open \in Opens, object \in WrappedObjects,
      close \in Closes, post \in Posts }

BareTexts ==
  { T_ScoreStr, T_ScoreFloat, T_ScoreNull, T_BadTypes, T_NoScore, T_Empty,
    T_ScoreWordOnly, T_List, T_Number, T_Sorry, T_Unbalanced, T_SingleQuotes, <<>> }

AllTexts == {c.text : c \in WrappedCases} \cup BareTexts

(***************************************************************************)
(* State                                                                   *)
(***************************************************************************)
VARIABLES
  cached_model_name,  \* _cached_model_name, process-wide
  pc,                 \* "idle", "calling" (before an upstream call),
                      \* "returned", "raised"
  user_prompt,        \* user_prompt
  model_index,        \* index of model_name in AVAILABLE_MODELS, from 0
  attempt,            \* attempt
  last_error,         \* last_error
  response,           \* response
  data,               \* data
  result,             \* the mapping returned
  raised,             \* the exception that left classify_regret
  calls,              \* history: the upstream calls of this call, in order
  sleeps,             \* history: the time.sleep calls of this call, in order
  started,            \* history: classify_regret calls started so far
  cache_at_start,     \* history: _cached_model_name when this call started
  ever_succeeded,     \* history: some upstream call of the process returned
  http_response,      \* the answer of the /classify handler to this call
  answers,            \* history, kept by SpecReplay: what each upstream call
                      \* of this call answered (error message or text)
  twin,               \* history, kept by SpecReplay: the same request and
                      \* upstream behaviour in a process with an empty cache
  threads             \* SpecThreads: the local state of each thread that
                      \* runs classify_regret

vars ==
  <<cached_model_name, pc, user_prompt, model_index, attempt, last_error,
    response, data, result, raised, calls, sleeps, started, cache_at_start,
    ever_succeeded, http_response, answers, twin, threads>>

\* the variables of one sequential call and of its handler
call_vars ==
  <<pc, user_prompt, model_index, attempt, last_error, response, data, result,
    raised, calls, sleeps, started, cache_at_start, http_response>>

\* ParseResponse, tabulated over the response texts
ParsedResponse == [text \in Texts \cup AllTexts |-> ParseResponse(text)]

ResponseNone == [is_none |-> TRUE, text |-> <<>>]
Response(text) == [is_none |-> FALSE, text |-> text]

NoPrompt == UserPrompt([typed_text |-> PyNone, url |-> PyNone,
                        time_iso |-> PyNone, context |-> PyNone])

\* no record of the twin yet
NoTwin ==
  [set |-> FALSE, answers |-> <<>>, calls |-> <<>>, sleeps |-> <<>>,
   result |-> NoResult, raised |-> NoException,
   http_response |-> NoHttpResponse]

\* the threads of SpecThreads, and the local state of one that has not
\* called classify_regret yet
Threads == {"t1", "t2"}
IdleThread ==
  [pc |-> "idle", model_index |-> 0, attempt |-> 0, last_error |-> NoException,
   response |-> ResponseNone, result |-> NoResult, raised |-> NoException]

Init ==
  /\ cached_model_name = None
  /\ pc = "idle"
  /\ user_prompt = NoPrompt
  /\ model_index = 0
  /\ attempt = 0
  /\ last_error = NoException
  /\ response = ResponseNone
  /\ data = PyNone
  /\ result = NoResult
  /\ raised = NoException
  /\ calls = <<>>
  /\ sleeps = <<>>
  /\ started = 0
  /\ cache_at_start = None
  /\ ever_succeeded = FALSE
  /\ http_response = NoHttpResponse
  /\ answers = <<>>
  /\ twin = NoTwin
  /\ threads = [t \in Threads |-> IdleThread]

model_name == AVAILABLE_MODELS[model_index + 1]

\* the record of the upstream call being made
CallRecord(outcome) ==
  [model_index |-> model_index, attempt |-> attempt, outcome |-> outcome,
   request |-> GenerationRequest(model_name, user_prompt)]

\* the record of a time.sleep: the seconds, and the upstream call it follows
SleepRecord(seconds) == [seconds |-> seconds, after_call |-> Len(calls) + 1]

\* from data to the end of classify_regret, and from there to the answer of
\* the handler
Finish(d) ==
  /\ data' = d
  /\ result' = Sanitize(d).result
  /\ raised' = Sanitize(d).exc
  /\ pc' = IF Sanitize(d).exc = NoException THEN "returned" ELSE "raised"
  /\ http_response' = classify(Sanitize(d))

\* mutant: the loop starts at the cached model
Start_FromCached(payload) ==
  /\ pc \in {"idle", "returned", "raised"}
  /\ started < MaxRequests
  /\ started' = started + 1
  /\ pc' = "calling"
  /\ user_prompt' = UserPrompt(payload)
  /\ model_index' =
       (IF cached_model_name = None THEN 0
        ELSE CHOOSE m \in 0..(Len(AVAILABLE_MODELS) - 1) :
               AVAILABLE_MODELS[m + 1] = cached_model_name)
  /\ attempt' = 0
  /\ last_error' = NoException
  /\ response' = ResponseNone
  /\ data' = PyNone
  /\ result' = NoResult
  /\ raised' = NoException
  /\ http_response' = NoHttpResponse
  /\ calls' = <<>>
  /\ sleeps' = <<>>
  /\ cache_at_start' = cached_model_name
  /\ UNCHANGED <<cached_model_name, ever_succeeded>>

\* classify_regret(payload) up to the first upstream call
Start(payload) ==
  /\ pc \in {"idle", "returned", "raised"}
  /\ started < MaxRequests
  /\ started' = started + 1
  /\ pc' = "calling"
  /\ user_prompt' = UserPrompt(payload)
  /\ model_index' = 0
  /\ attempt' = 0
  /\ last_error' = NoException
  /\ response' = ResponseNone
  /\ data' = PyNone
  /\ result' = NoResult
  /\ raised' = NoException
  /\ http_response' = NoHttpResponse
  /\ calls' = <<>>
  /\ sleeps' = <<>>
  /\ cache_at_start' = cached_model_name
  /\ UNCHANGED <<cached_model_name, ever_succeeded>>

\* mutant: a response that does not parse is retried like an upstream error
GenerateOk_RetryUnparsed(text) ==
  /\ pc = "calling"
  /\ calls' = Append(calls, CallRecord("ok"))
  /\ cached_model_name' = CacheAfterSuccess(cached_model_name, model_name)
  /\ ever_succeeded' = TRUE
  /\ IF ParsedResponse[text] = ParseFailureData /\ attempt < max_retries - 1
     THEN /\ sleeps' = Append(sleeps, SleepRecord(retry_delay))
          /\ attempt' = attempt + 1
          /\ UNCHANGED <<pc, data, result, raised, http_response, response>>
     ELSE /\ response' = Response(text)
          /\ Finish(ParsedResponse[text])
          /\ UNCHANGED <<sleeps, attempt>>
  /\ UNCHANGED <<user_prompt, model_index, last_error, started, cache_at_start>>

\* mutant: the model name is cached only when the response parses
GenerateOk_CacheParsed(text) ==
  /\ pc = "calling"
  /\ response' = Response(text)
  /\ cached_model_name' =
       (IF ParsedResponse[text] = ParseFailureData THEN cached_model_name
        ELSE CacheAfterSuccess(cached_model_name, model_name))
  /\ ever_succeeded' = TRUE
  /\ calls' = Append(calls, CallRecord("ok"))
  /\ Finish(ParsedResponse[text])
  /\ UNCHANGED <<user_prompt, model_index, attempt, last_error, sleeps,
                 started, cache_at_start>>

\* generate_content returns a response with this text: cache the model name,
\* leave both loops, parse, sanitize, return
GenerateOk(text) ==
  /\ pc = "calling"
  /\ response' = Response(text)
  /\ cached_model_name' = CacheAfterSuccess(cached_model_name, model_name)
  /\ ever_succeeded' = TRUE
  /\ calls' = Append(calls, CallRecord("ok"))
  /\ Finish(ParsedResponse[text])
  /\ UNCHANGED <<user_prompt, model_index, attempt, last_error, sleeps,
                 started, cache_at_start>>

\* mutant: a not-found-class error is retried like any other error
GenerateNotFound_Retry(msg) ==
  /\ pc = "calling"
  /\ IsNotFound(msg)
  /\ last_error' = UpstreamError(msg)
  /\ calls' = Append(calls, CallRecord("not_found"))
  /\ IF attempt < max_retries - 1
     THEN /\ sleeps' = Append(sleeps, SleepRecord(OtherErrorWait(attempt)))
          /\ attempt' = attempt + 1
          /\ UNCHANGED <<pc, data, result, raised, http_response, model_index>>
     ELSE /\ IF model_index + 1 < Len(AVAILABLE_MODELS)
             THEN /\ model_index' = model_index + 1
                  /\ attempt' = 0
                  /\ UNCHANGED <<pc, data, result, raised, http_response>>
             ELSE /\ Finish(ApiErrorData(UpstreamError(msg)))
                  /\ UNCHANGED <<model_index, attempt>>
          /\ UNCHANGED sleeps
  /\ UNCHANGED <<cached_model_name, user_prompt, response, started,
                 cache_at_start, ever_succeeded>>

\* mutant: after the last candidate the first error of the call is raised,
\* not the last
GenerateNotFound_FirstError(msg) ==
  /\ pc = "calling"
  /\ IsNotFound(msg)
  /\ last_error' = (IF last_error = NoException THEN UpstreamError(msg)
                                                  ELSE last_error)
  /\ calls' = Append(calls, CallRecord("not_found"))
  /\ IF model_index + 1 < Len(AVAILABLE_MODELS)
     THEN /\ model_index' = model_index + 1
          /\ attempt' = 0
          /\ UNCHANGED <<pc, data, result, raised, http_response>>
     ELSE /\ Finish(ApiErrorData(IF last_error = NoException
                                  THEN UpstreamError(msg) ELSE last_error))
          /\ UNCHANGED <<model_index, attempt>>
  /\ UNCHANGED <<cached_model_name, user_prompt, response, sleeps, started,
                 cache_at_start, ever_succeeded>>

\* generate_content raises a not-found-class error: break to the next model;
\* after the last model, raise last_error into the outer except
GenerateNotFound(msg) ==
  /\ pc = "calling"
  /\ IsNotFound(msg)
  /\ last_error' = UpstreamError(msg)
  /\ calls' = Append(calls, CallRecord("not_found"))
  /\ IF model_index + 1 < Len(AVAILABLE_MODELS)
     THEN /\ model_index' = model_index + 1
          /\ attempt' = 0
          /\ UNCHANGED <<pc, data, result, raised, http_response>>
     ELSE /\ Finish(ApiErrorData(UpstreamError(msg)))
          /\ UNCHANGED <<model_index, attempt>>
  /\ UNCHANGED <<cached_model_name, user_prompt, response, sleeps, started,
                 cache_at_start, ever_succeeded>>

\* generate_content raises a rate-limit-class error: sleep and retry, or
\* re-raise into the outer except on the last attempt
GenerateRateLimited(msg) ==
  /\ pc = "calling"
  /\ IsRateLimit(msg)
  /\ last_error' = UpstreamError(msg)
  /\ calls' = Append(calls, CallRecord("rate_limit"))
  /\ IF attempt < max_retries - 1
     THEN /\ sleeps' = Append(sleeps, SleepRecord(RateLimitWait(attempt)))
          /\ attempt' = attempt + 1
          /\ UNCHANGED <<pc, data, result, raised, http_response>>
     ELSE /\ Finish(ApiErrorData(UpstreamError(msg)))
          /\ UNCHANGED <<sleeps, attempt>>
  /\ UNCHANGED <<cached_model_name, user_prompt, model_index, response,
                 started, cache_at_start, ever_succeeded>>

\* mutant: after the last attempt the loop goes on to the next candidate
GenerateOtherError_NextCandidate(msg) ==
  /\ pc = "calling"
  /\ IsOtherError(msg)
  /\ last_error' = UpstreamError(msg)
  /\ calls' = Append(calls, CallRecord("other"))
  /\ IF attempt < max_retries - 1
     THEN /\ sleeps' = Append(sleeps, SleepRecord(OtherErrorWait(attempt)))
          /\ attempt' = attempt + 1
          /\ UNCHANGED <<pc, data, result, raised, http_response, model_index>>
     ELSE /\ IF model_index + 1 < Len(AVAILABLE_MODELS)
             THEN /\ model_index' = model_index + 1
                  /\ attempt' = 0
                  /\ UNCHANGED <<pc, data, result, raised, http_response>>
             ELSE /\ Finish(ApiErrorData(UpstreamError(msg)))
                  /\ UNCHANGED <<model_index, attempt>>
          /\ UNCHANGED sleeps
  /\ UNCHANGED <<cached_model_name, user_prompt, response, started,
                 cache_at_start, ever_succeeded>>

\* generate_content raises any other error: sleep and retry, or re-raise
\* into the outer except on the last attempt
GenerateOtherError(msg) ==
  /\ pc = "calling"
  /\ IsOtherError(msg)
  /\ last_error' = UpstreamError(msg)
  /\ calls' = Append(calls, CallRecord("other"))
  /\ IF attempt < max_retries - 1
     THEN /\ sleeps' = Append(sleeps, SleepRecord(OtherErrorWait(attempt)))
          /\ attempt' = attempt + 1
          /\ UNCHANGED <<pc, data, result, raised, http_response>>
     ELSE /\ Finish(ApiErrorData(UpstreamError(msg)))
          /\ UNCHANGED <<sleeps, attempt>>
  /\ UNCHANGED <<cached_model_name, user_prompt, model_index, response,
                 started, cache_at_start, ever_succeeded>>

\* the variables the sequential specifications leave alone
other_vars == <<answers, twin, threads>>

Next ==
  \/ (\E payload \in Payloads : Start(payload)) /\ UNCHANGED other_vars
  \/ (\E text \in Texts : GenerateOk(text)) /\ UNCHANGED other_vars
  \/ (\E msg \in ErrorMessages : GenerateNotFound(msg)) /\ UNCHANGED other_vars
  \/ (\E msg \in ErrorMessages : GenerateRateLimited(msg))
       /\ UNCHANGED other_vars
  \/ (\E msg \in ErrorMessages : GenerateOtherError(msg))
       /\ UNCHANGED other_vars

Spec == Init /\ [][Next]_vars

\* The specification of the claims about the response text: the caller
\* sends the one payload ScenarioPayload, the upstream answers with any text
\* of AllTexts, or with a not-found error, so that each candidate (each
\* capability profile) comes to answer.
NextText ==
  \/ Start(ScenarioPayload) /\ UNCHANGED other_vars
  \/ (\E text \in AllTexts : GenerateOk(text)) /\ UNCHANGED other_vars
  \/ GenerateNotFound(E_404) /\ UNCHANGED other_vars

SpecText == Init /\ [][NextText]_vars

\* The specification of the claims about what the upstream answered and
\* about the cache as a hint. It keeps in answers what each upstream call of
\* the call answered. A first process, its cache empty, serves the request
\* ScenarioPayload; the twin keeps what that call did; then a process whose
\* cache holds a candidate serves the same request and its upstream gives the
\* same answers, call by call.
ErrorAnswer(msg) == [raised |-> TRUE, chars |-> msg]
TextAnswer(text) == [raised |-> FALSE, chars |-> text]

ReplayTexts == {T_Good, T_List}

\* the upstream answers the way it answered in the twin
Replays(answer) ==
  (twin.set /\ Len(calls) < Len(twin.answers)) =>
    answer = twin.answers[Len(calls) + 1]

\* the request goes to a process whose cache holds the candidate c, set by
\* an earlier success of that process
OtherProcess(c) ==
  /\ pc \in {"returned", "raised"}
  /\ ~twin.set
  /\ twin' = [set |-> TRUE, answers |-> answers, calls |-> calls,
              sleeps |-> sleeps, result |-> result, raised |-> raised,
              http_response |-> http_response]
  /\ cached_model_name' = c
  /\ ever_succeeded' = TRUE
  /\ pc' = "idle"
  /\ user_prompt' = NoPrompt
  /\ model_index' = 0
  /\ attempt' = 0
  /\ last_error' = NoException
  /\ response' = ResponseNone
  /\ data' = PyNone
  /\ result' = NoResult
  /\ raised' = NoException
  /\ http_response' = NoHttpResponse
  /\ calls' = <<>>
  /\ sleeps' = <<>>
  /\ cache_at_start' = None
  /\ answers' = <<>>
  /\ UNCHANGED <<started, threads>>

\* an upstream call of the call is answered, by a text of texts or by an
\* error message of errors, and answers keeps the answer
Answer(texts, errors) ==
  \/ \E text \in texts :
       /\ Replays(TextAnswer(text))
       /\ GenerateOk(text)
       /\ answers' = Append(answers, TextAnswer(text))
       /\ UNCHANGED <<twin, threads>>
  \/ \E msg \in errors :
       /\ Replays(ErrorAnswer(msg))
       /\ GenerateNotFound(msg)
       /\ answers' = Append(answers, ErrorAnswer(msg))
       /\ UNCHANGED <<twin, threads>>
  \/ \E msg \in errors :
       /\ Replays(ErrorAnswer(msg))
       /\ GenerateRateLimited(msg)
       /\ answers' = Append(answers, ErrorAnswer(msg))
       /\ UNCHANGED <<twin, threads>>
  \/ \E msg \in errors :
       /\ Replays(ErrorAnswer(msg))
       /\ GenerateOtherError(msg)
       /\ answers' = Append(answers, ErrorAnswer(msg))
       /\ UNCHANGED <<twin, threads>>

\* The specification of the claims about the error messages: calls of one
\* process, one after the other, every error message at every upstream call.
NextAnswers ==
  \/ /\ Start(ScenarioPayload)
     /\ answers' = <<>>
     /\ UNCHANGED <<twin, threads>>
  \/ Answer(ReplayTexts, ErrorMessages)

SpecAnswers == Init /\ [][NextAnswers]_vars

\* one error message of each class
ReplayErrors == {E_404, E_Quota, E_Reset}

NextReplay ==
  \/ /\ started = 0 \/ (twin.set /\ started = 1)
     /\ Start(ScenarioPayload)
     /\ answers' = <<>>
     /\ UNCHANGED <<twin, threads>>
  \/ Answer(ReplayTexts, ReplayErrors)
  \/ \E c \in {AVAILABLE_MODELS[i] : i \in 1..Len(AVAILABLE_MODELS)} :
       OtherProcess(c)

SpecReplay == Init /\ [][NextReplay]_vars

(***************************************************************************)
(* classify_regret called by several threads of one process: each thread   *)
(* has its own locals, all share _cached_model_name. The test of line 142  *)
(* and the assignment of line 143 are two steps, and another thread may    *)
(* run between them.                                                       *)
(***************************************************************************)
\* the variables of the sequential specifications, which the threads leave
\* alone
sequential_vars == <<call_vars, answers, twin>>

\* thread t has returned from classify_regret or raised out of it: the
\* locals are gone, the outcome stays
EndedThread(outcome) ==
  [IdleThread EXCEPT !.pc = IF outcome.exc = NoException THEN "returned"
                                                          ELSE "raised",
                     !.result = outcome.result,
                     !.raised = outcome.exc]

\* classify_regret(payload) up to the first upstream call
ThreadStart(t) ==
  /\ threads[t].pc = "idle"
  /\ threads' = [threads EXCEPT ![t] = [IdleThread EXCEPT !.pc = "calling"]]
  /\ UNCHANGED <<cached_model_name, ever_succeeded, sequential_vars>>

\* generate_content returns a response with this text (lines 136-139)
ThreadGenerateOk(t, text) ==
  /\ threads[t].pc = "calling"
  /\ threads' = [threads EXCEPT ![t].pc = "check",
                                ![t].response = Response(text)]
  /\ ever_succeeded' = TRUE
  /\ UNCHANGED <<cached_model_name, sequential_vars>>

\* if not _cached_model_name (line 142): go on to the assignment, or leave
\* both loops, parse, sanitize, return
ThreadCheckCache(t) ==
  /\ threads[t].pc = "check"
  /\ threads' =
       [threads EXCEPT ![t] =
          IF cached_model_name = None
          THEN [threads[t] EXCEPT !.pc = "write"]
          ELSE EndedThread(Sanitize(ParsedResponse[threads[t].response.text]))]
  /\ UNCHANGED <<cached_model_name, ever_succeeded, sequential_vars>>

\* _cached_model_name = model_name (line 143), then leave both loops, parse,
\* sanitize, return
ThreadWriteCache(t) ==
  /\ threads[t].pc = "write"
  /\ cached_model_name' = AVAILABLE_MODELS[threads[t].model_index + 1]
  /\ threads' =
       [threads EXCEPT ![t] =
          EndedThread(Sanitize(ParsedResponse[threads[t].response.text]))]
  /\ UNCHANGED <<ever_succeeded, sequential_vars>>

\* generate_content raises a not-found-class error
ThreadGenerateNotFound(t, msg) ==
  /\ threads[t].pc = "calling"
  /\ IsNotFound(msg)
  /\ threads' =
       [threads EXCEPT ![t] =
          IF threads[t].model_index + 1 < Len(AVAILABLE_MODELS)
          THEN [threads[t] EXCEPT !.model_index = @ + 1, !.attempt = 0,
                                  !.last_error = UpstreamError(msg)]
          ELSE EndedThread(Sanitize(ApiErrorData(UpstreamError(msg))))]
  /\ UNCHANGED <<cached_model_name, ever_succeeded, sequential_vars>>

\* generate_content raises a rate-limit-class error
ThreadGenerateRateLimited(t, msg) ==
  /\ threads[t].pc = "calling"
  /\ IsRateLimit(msg)
  /\ threads' =
       [threads EXCEPT ![t] =
          IF threads[t].attempt < max_retries - 1
          THEN [threads[t] EXCEPT !.attempt = @ + 1,
                                  !.last_error = UpstreamError(msg)]
          ELSE EndedThread(Sanitize(ApiErrorData(UpstreamError(msg))))]
  /\ UNCHANGED <<cached_model_name, ever_succeeded, sequential_vars>>

\* generate_content raises any other error
ThreadGenerateOtherError(t, msg) ==
  /\ threads[t].pc = "calling"
  /\ IsOtherError(msg)
  /\ threads' =
       [threads EXCEPT ![t] =
          IF threads[t].attempt < max_retries - 1
          THEN [threads[t] EXCEPT !.attempt = @ + 1,
                                  !.last_error = UpstreamError(msg)]
          ELSE EndedThread(Sanitize(ApiErrorData(UpstreamError(msg))))]
  /\ UNCHANGED <<cached_model_name, ever_succeeded, sequential_vars>>

NextThreads ==
  \/ \E t \in Threads : ThreadStart(t)
  \/ \E t \in Threads : \E text \in ReplayTexts : ThreadGenerateOk(t, text)
  \/ \E t \in Threads : ThreadCheckCache(t)
  \/ \E t \in Threads : ThreadWriteCache(t)
  \/ \E t \in Threads : \E msg \in ReplayErrors : ThreadGenerateNotFound(t, msg)
  \/ \E t \in Threads :
       \E msg \in ReplayErrors : ThreadGenerateRateLimited(t, msg)
  \/ \E t \in Threads :
       \E msg \in ReplayErrors : ThreadGenerateOtherError(t, msg)

SpecThreads == Init /\ [][NextThreads]_vars

(***************************************************************************)
(* Claims                                                                  *)
(***************************************************************************)
Ended == pc \in {"returned", "raised"}

\* some upstream call of this classify_regret call returned a response
SomeCallSucceeded == \E i \in 1..Len(calls) : calls[i].outcome = "ok"

\* C1: classify_regret never raises to its caller: whatever the upstream
\* does, the call ends by returning a result mapping.
C1_NeverRaises == pc # "raised"

Strengths == {PyStr(S_NONE), PyStr(S_WARN), PyStr(S_PUZZLE), PyStr(S_BLOCK_HARD)}

\* C2: the result returned holds regret_score as an integer, reason,
\* llm_message and simulation as strings and intervention_strength as one of
\* NONE, WARN, PUZZLE, BLOCK_HARD.
C2_ResultTypes ==
  pc = "returned" =>
    /\ DOMAIN result = {"regret_score", "reason", "intervention_strength",
                        "llm_message", "simulation"}
    /\ result.regret_score.t = "int"
    /\ result.reason.t = "str"
    /\ result.llm_message.t = "str"
    /\ result.simulation.t = "str"
    /\ result.intervention_strength \in Strengths

\* C3: a call in which no upstream call succeeds returns the safe default:
\* score 0, strength NONE, reason "API error: <cause>" for an upstream error
\* message <cause>, message "API error occurred.", empty simulation.
C3_ApiErrorDefault ==
  (Ended /\ ~SomeCallSucceeded) =>
    /\ pc = "returned"
    /\ result.regret_score = PyInt(0)
    /\ result.intervention_strength = PyStr(S_NONE)
    /\ \E cause \in ErrorMessages :
         result.reason = PyStr(S_ApiErrorPrefix \o cause)
    /\ result.llm_message = PyStr(S_ApiErrorOccurred)
    /\ result.simulation = PyStr(<<>>)

\* C3 happens: the first two candidates are not found and the third
\* exhausts its retries on rate limits.
C3_Witness ==
  /\ pc = "returned"
  /\ ~SomeCallSucceeded
  /\ Len(calls) = 5
  /\ calls[1].outcome = "not_found"
  /\ calls[5].outcome = "rate_limit"

FiveKeys ==
  {K_regret_score, K_reason, K_intervention_strength, K_llm_message,
   K_future_regret_simulation}

\* the response text is itself a JSON object holding the five keys, with a
\* score that int() accepts
IsFullVerdict(text) ==
  /\ JsonLoads(text).ok
  /\ JsonLoads(text).val.t = "dict"
  /\ \A k \in FiveKeys : HasKey(JsonLoads(text).val, k)
  /\ IntOf(Lookup(JsonLoads(text).val, K_regret_score)).exc = NoException

\* C4: when the response text is a JSON object holding the five keys
\* (whatever its string values hold), the result carries the parsed values:
\* the score as an integer, reason, strength and message as parsed, and
\* simulation the parsed future_regret_simulation.
C4_VerdictVerbatim ==
  (Ended /\ ~response.is_none /\ IsFullVerdict(response.text)) =>
    LET parsed == JsonLoads(response.text).val
    IN  /\ pc = "returned"
        /\ result.regret_score = IntOf(Lookup(parsed, K_regret_score)).val
        /\ result.reason = Lookup(parsed, K_reason)
        /\ result.intervention_strength = Lookup(parsed, K_intervention_strength)
        /\ result.llm_message = Lookup(parsed, K_llm_message)
        /\ result.simulation = Lookup(parsed, K_future_regret_simulation)

IsJsonObject(text) == JsonLoads(text).ok /\ JsonLoads(text).val.t = "dict"

\* the number of "{" less the number of "}" among the characters 0..i
Depth(text, i) ==
  Cardinality({k \in 0..i : At(text, k) = "{"})
    - Cardinality({k \in 0..i : At(text, k) = "}"})

\* the braces of the text are balanced, counting every brace character:
\* the depth is zero after the last character and positive before
Balanced(text) ==
  /\ Len(text) > 0
  /\ Depth(text, Len(text) - 1) = 0
  /\ \A i \in 0..(Len(text) - 2) : Depth(text, i) > 0

\* the balanced-brace JSON objects among the wrapped ones
BalancedObjects ==
  {object \in WrappedObjects : IsJsonObject(object) /\ Balanced(object)}

\* a balanced-brace JSON object inside fences, with prose before or after
IsFencedWithProse(c) ==
  /\ c.open # <<>>
  /\ c.close # <<>>
  /\ c.pre # <<>> \/ c.post # <<>>
  /\ c.object \in BalancedObjects

\* the cases of WrappedCases whose text is the response of the ended call
ResponseCases ==
  IF Ended /\ ~response.is_none
  THEN {c \in WrappedCases : c.text = response.text}
  ELSE {}

\* C5 as stated: for a balanced-brace JSON object in fences with prose
\* before and/or after, the extraction yields exactly the object and the
\* parse gives its value.
C5_FencedExtraction ==
  \A c \in ResponseCases :
    IsFencedWithProse(c) =>
      /\ ExtractJson(response.text) = c.object
      /\ data = JsonLoads(c.object).val

\* C5 amended: the same, for prose before the object that holds no "{".
C5_FencedExtractionNoBraceBefore ==
  \A c \in ResponseCases :
    (IsFencedWithProse(c) /\ Find(c.pre, "{") = -1) =>
      /\ ExtractJson(response.text) = c.object
      /\ data = JsonLoads(c.object).val
      /\ data # ParseFailureData

\* C5 happens: a verdict with a nested object, in a json fence between two
\* pieces of prose, is returned with its values.
C5_Witness ==
  /\ pc = "returned"
  /\ response = Response(Wrap(X_Sure, X_FenceJsonLine, T_Nested, X_LineFence, X_Bye))
  /\ data = JsonLoads(T_Nested).val
  /\ result.reason = PyStr(<<"L","a","t","e">>)

ParseFailureResult ==
  [regret_score |-> PyInt(0), reason |-> PyStr(S_FailedToParse),
   intervention_strength |-> PyStr(S_NONE),
   llm_message |-> PyStr(S_ErrorOccurred), simulation |-> PyStr(<<>>)]

\* C6: when json.loads rejects what the extraction hands it, the call
\* returns exactly the parse-failure default.
C6_ParseFailureDefault ==
  (Ended /\ ~response.is_none /\ ~JsonLoads(ExtractJson(response.text)).ok) =>
    /\ pc = "returned"
    /\ result = ParseFailureResult

\* C6 happens: the third candidate answers with an object that is never
\* closed.
C6_Witness ==
  /\ pc = "returned"
  /\ response = Response(T_Unbalanced)
  /\ model_index = 2
  /\ result = ParseFailureResult

LastCall == calls[Len(calls)]

\* the call ended, its first candidate ended in a not-found error and its
\* second candidate returned the response
FirstNotFoundSecondOk ==
  /\ Ended
  /\ \E i \in 1..Len(calls) :
       calls[i].model_index = 0 /\ calls[i].outcome = "not_found"
  /\ LastCall.outcome = "ok"
  /\ LastCall.request.model_name = AVAILABLE_MODELS[2]

\* the call ended the way the sanitize block ends on the parse of the
\* response
OutcomeOfResponse ==
  /\ ~response.is_none
  /\ data = ParseResponse(response.text)
  /\ [exc |-> raised, result |-> result] = Sanitize(data)

\* C7 as stated: when such a call has returned, the result is that of the
\* second candidate's response and the cached model identifier is the second
\* candidate.
C7_CacheIsSecond ==
  (FirstNotFoundSecondOk /\ pc = "returned") =>
    /\ OutcomeOfResponse
    /\ cached_model_name = AVAILABLE_MODELS[2]

\* C7 amended: after such a call the cached model identifier is the second
\* candidate if the cache was empty when the call started, and the value it
\* had otherwise; the outcome is that of the second candidate's response.
C7_CacheIsSecondIfEmpty ==
  FirstNotFoundSecondOk =>
    /\ OutcomeOfResponse
    /\ cache_at_start = None => cached_model_name = AVAILABLE_MODELS[2]
    /\ cache_at_start # None => cached_model_name = cache_at_start

\* C7 happens: in the first call of the process the first candidate is not
\* found and the second returns the verdict.
C7_Witness ==
  /\ FirstNotFoundSecondOk
  /\ cache_at_start = None
  /\ pc = "returned"
  /\ response = Response(T_Good)
  /\ result.regret_score = PyInt(85)
  /\ cached_model_name = AVAILABLE_MODELS[2]

\* C8: the cached model identifier is empty at first, is non-empty exactly
\* from the first upstream success of the process on, and once non-empty
\* never changes.
C8_CacheSetOnce ==
  /\ cached_model_name = None
  /\ [](cached_model_name = None <=> ~ever_succeeded)
  /\ [][cached_model_name # None => cached_model_name' = cached_model_name]_vars

\* C8 happens: a later call succeeds on another candidate than the cached
\* one.
C8_Witness ==
  /\ started = 2
  /\ cache_at_start # None
  /\ Ended
  /\ SomeCallSucceeded
  /\ LastCall.request.model_name # cached_model_name

CallsTo(m) == {i \in 1..Len(calls) : calls[i].model_index = m}

\* C9: at most 3 upstream calls to any candidate, at most len(candidates) x 3
\* in all, never a call to an earlier candidate after a call to a later
\* one, and the attempts on a candidate numbered 0, 1, 2 in order.
C9_CallOrder ==
  /\ \A m \in 0..(Len(AVAILABLE_MODELS) - 1) : Cardinality(CallsTo(m)) <= 3
  /\ Len(calls) <= Len(AVAILABLE_MODELS) * 3
  /\ \A i, j \in 1..Len(calls) :
       i < j => calls[i].model_index <= calls[j].model_index
  /\ \A i \in 1..Len(calls) :
       calls[i].attempt = Cardinality({j \in CallsTo(calls[i].model_index) : j < i})

\* C9 happens: two candidates were tried once and the third three times.
C9_Witness ==
  /\ Len(calls) = 5
  /\ Cardinality(CallsTo(2)) = 3
  /\ Ended

\* call i is a rate-limit failure that follows only rate-limit failures on
\* its candidate
RateLimitRun(i) ==
  \A j \in CallsTo(calls[i].model_index) : j <= i => calls[j].outcome = "rate_limit"

\* C10: after the N-th rate-limit failure in a row on a candidate (N < 3),
\* the code sleeps 1 s after attempt 0 and 2 s after attempt 1, and the next
\* upstream call is the next attempt on the same candidate; the third such
\* failure ends the call.
C10_Backoff ==
  \A i \in 1..Len(calls) :
    RateLimitRun(i) =>
      IF calls[i].attempt < 2
      THEN /\ \E k \in 1..Len(sleeps) :
                /\ sleeps[k].after_call = i
                /\ sleeps[k].seconds = (IF calls[i].attempt = 0 THEN 1 ELSE 2)
           /\ Cardinality({k \in 1..Len(sleeps) : sleeps[k].after_call = i}) = 1
           /\ IF i < Len(calls)
              THEN /\ calls[i + 1].model_index = calls[i].model_index
                   /\ calls[i + 1].attempt = calls[i].attempt + 1
              ELSE /\ pc = "calling"
                   /\ model_index = calls[i].model_index
                   /\ attempt = calls[i].attempt + 1
      ELSE /\ i = Len(calls)
           /\ Ended
           /\ \A k \in 1..Len(sleeps) : sleeps[k].after_call # i

\* C10 happens: two rate-limit failures on the second candidate, slept 1 s
\* and 2 s, then its third attempt succeeds.
C10_Witness ==
  /\ Len(calls) = 4
  /\ calls[2].outcome = "rate_limit" /\ calls[3].outcome = "rate_limit"
  /\ calls[4].outcome = "ok" /\ calls[4].model_index = 1 /\ calls[4].attempt = 2
  /\ sleeps = <<[seconds |-> 1, after_call |-> 2], [seconds |-> 2, after_call |-> 3]>>

\* the kind of upstream error an error message is
ErrorClass(error_str) ==
  IF IsNotFound(error_str) THEN "not_found"
  ELSE IF IsRateLimit(error_str) THEN "rate_limit" ELSE "other"

\* the API-error default with this cause
ApiErrorResult(cause) ==
  [regret_score |-> PyInt(0), reason |-> PyStr(S_ApiErrorPrefix \o cause),
   intervention_strength |-> PyStr(S_NONE),
   llm_message |-> PyStr(S_ApiErrorOccurred), simulation |-> PyStr(<<>>)]

SleepsAfter(i) == {k \in 1..Len(sleeps) : sleeps[k].after_call = i}

\* C11: a not-found-class failure of an upstream call, at any attempt, is
\* followed by no sleep and by no further call to that candidate; the next
\* upstream call is attempt 0 on the next candidate, and the call goes on
\* to it whenever a candidate remains; the failure ends the call, with its
\* message as the cause of the API-error default, only when it is the last
\* upstream call, on the last candidate.
C11_NotFoundSkips ==
  \A i \in 1..Len(calls) :
    calls[i].outcome = "not_found" =>
      /\ SleepsAfter(i) = {}
      /\ \A j \in (i + 1)..Len(calls) :
           calls[j].model_index # calls[i].model_index
      /\ i < Len(calls) =>
           /\ calls[i + 1].model_index = calls[i].model_index + 1
           /\ calls[i + 1].attempt = 0
           /\ Ended /\ ~SomeCallSucceeded =>
                /\ ErrorClass(last_error.msg) = LastCall.outcome
                /\ result = ApiErrorResult(last_error.msg)
      /\ i = Len(calls) =>
           IF calls[i].model_index + 1 < Len(AVAILABLE_MODELS)
           THEN /\ pc = "calling"
                /\ model_index = calls[i].model_index + 1
                /\ attempt = 0
           ELSE /\ pc = "returned"
                /\ IsNotFound(last_error.msg)
                /\ result = ApiErrorResult(last_error.msg)

\* C11 happens: the third attempt on the first candidate is not found, after
\* two sleeps, and the next call is the first attempt on the second
\* candidate; the call ends on another error than the not-found one.
C11_Witness ==
  /\ Len(calls) >= 4
  /\ calls[3].outcome = "not_found" /\ calls[3].attempt = 2
  /\ calls[4].model_index = 1 /\ calls[4].attempt = 0
  /\ Len(sleeps) >= 2
  /\ Ended
  /\ LastCall.outcome = "rate_limit"

\* C12: a rate-limit-class or other failure of the third attempt on a
\* candidate is the last upstream call of the call, which returns the
\* API-error default with that failure as cause; such a failure of the
\* first or second attempt is followed by the next attempt on the same
\* candidate.
C12_ThirdFailurePropagates ==
  \A i \in 1..Len(calls) :
    calls[i].outcome \in {"rate_limit", "other"} =>
      IF calls[i].attempt = max_retries - 1
      THEN /\ i = Len(calls)
           /\ pc = "returned"
           /\ ErrorClass(last_error.msg) = calls[i].outcome
           /\ result = ApiErrorResult(last_error.msg)
      ELSE IF i < Len(calls)
           THEN /\ calls[i + 1].model_index = calls[i].model_index
                /\ calls[i + 1].attempt = calls[i].attempt + 1
           ELSE /\ pc = "calling"
                /\ model_index = calls[i].model_index
                /\ attempt = calls[i].attempt + 1

\* C12 happens: the third attempt on the first candidate fails with an
\* other error, after two rate-limit failures, and the call has returned
\* with no call to a later candidate.
C12_Witness ==
  /\ Len(calls) = 3
  /\ calls[1].outcome = "rate_limit" /\ calls[2].outcome = "rate_limit"
  /\ calls[3].outcome = "other" /\ calls[3].model_index = 0
  /\ pc = "returned"

\* C13: an upstream call that returned a response is the last upstream call
\* of the call, which has ended; no sleep follows it, and no later attempt
\* or candidate, also when the response does not parse.
C13_StopOnSuccess ==
  \A i \in 1..Len(calls) :
    calls[i].outcome = "ok" =>
      /\ i = Len(calls)
      /\ Ended
      /\ \A k \in 1..Len(sleeps) : sleeps[k].after_call < i
      /\ ~response.is_none
      /\ data = ParsedResponse[response.text]

\* C13 happens: the first attempt on the first candidate returns a text that
\* does not parse, and the call has returned the parse-failure default.
C13_Witness ==
  /\ Len(calls) = 1
  /\ calls[1].outcome = "ok"
  /\ response = Response(T_Sorry)
  /\ data = ParseFailureData
  /\ pc = "returned"
  /\ result = ParseFailureResult

LastAnswer == answers[Len(answers)]

\* C14: a call that ends with no upstream call having returned returns the
\* API-error default whose cause is the message of the last upstream error
\* of the call, whatever errors came before it.
C14_LastErrorIsCause ==
  (Ended /\ ~SomeCallSucceeded) =>
    /\ Len(answers) = Len(calls)
    /\ LastAnswer.raised
    /\ pc = "returned"
    /\ result = ApiErrorResult(LastAnswer.chars)

\* C14 happens: not-found errors with two different messages skip the first
\* two candidates, after an other error on the first, and the third
\* candidate fails three times on the rate limit.
C14_Witness ==
  /\ Ended
  /\ Len(answers) = 6
  /\ started = 1
  /\ answers[1].chars = E_Reset
  /\ answers[2].chars = E_404
  /\ answers[3].chars = E_QuotaNotSupported
  /\ LastAnswer.chars = E_Quota
  /\ result = ApiErrorResult(E_Quota)

\* C15: a call of a process whose cache holds a candidate, for the request
\* and the upstream answers of a call of a process whose cache is empty,
\* makes the same upstream calls in the same order, from the first
\* candidate on, sleeps the same, and ends the same way with the same
\* result.
C15_CacheIsHint ==
  (twin.set /\ started = 2) =>
    /\ cache_at_start # None
    /\ Len(calls) <= Len(twin.calls)
    /\ \A i \in 1..Len(calls) : calls[i] = twin.calls[i]
    /\ Len(calls) > 0 => calls[1].model_index = 0
    /\ Ended <=> Len(calls) = Len(twin.calls)
    /\ Ended =>
         /\ sleeps = twin.sleeps
         /\ result = twin.result
         /\ raised = twin.raised
         /\ http_response = twin.http_response

\* C15 happens: the cache holds the third candidate, and the call, like its
\* twin, goes from the first candidate to the second, which returns the
\* verdict.
C15_Witness ==
  /\ twin.set
  /\ started = 2
  /\ cache_at_start = AVAILABLE_MODELS[3]
  /\ Ended
  /\ Len(calls) = 2
  /\ calls[1].model_index = 0 /\ calls[1].outcome = "not_found"
  /\ calls[2].model_index = 1 /\ calls[2].outcome = "ok"
  /\ result = twin.result
  /\ result.regret_score = PyInt(85)

\* C16: with classify_regret running in several threads at once, the threads
\* about to write the cached model identifier all write the same candidate,
\* and a cache that is non-empty keeps its value at every step.
C16_BenignRace ==
  [][/\ \A t, u \in Threads :
          (threads[t].pc = "write" /\ threads[u].pc = "write") =>
            threads[t].model_index = threads[u].model_index
     /\ cached_model_name # None => cached_model_name' = cached_model_name]_vars

\* the keys of the parsed object, the fields of the result they go to and
\* the defaults of the sanitize block
KeyDefaults ==
  { <<K_regret_score, "regret_score", PyInt(0)>>,
    <<K_reason, "reason", PyStr(S_NoReasonGiven)>>,
    <<K_intervention_strength, "intervention_strength", PyStr(S_NONE)>>,
    <<K_llm_message, "llm_message", PyStr(S_YouSure)>>,
    <<K_future_regret_simulation, "simulation", PyStr(<<>>)>> }

\* the response parsed to a JSON object that lacks some of the five keys
LacksKeys ==
  /\ ~response.is_none
  /\ JsonLoads(ExtractJson(response.text)).ok
  /\ data.t = "dict"
  /\ \E k \in FiveKeys : \A i \in 1..Len(data.m) : data.m[i][1] # k

\* C17: when the response parsed to a JSON object that lacks some of the
\* five keys, the call returns a result in which every absent key has its
\* default (0, "No reason given.", "NONE", "You sure about this?", "") and
\* every key that is present has its parsed value.
C17_AbsentKeysDefault ==
  (Ended /\ LacksKeys) =>
    /\ pc = "returned"
    /\ \A kd \in KeyDefaults :
         \/ /\ \A i \in 1..Len(data.m) : data.m[i][1] # kd[1]
            /\ result[kd[2]] = kd[3]
         \/ \E i \in 1..Len(data.m) :
              /\ data.m[i][1] = kd[1]
              /\ result[kd[2]] = data.m[i][2]

\* C18: the cached model identifier changes only in the step in which an
\* upstream call returns, only from empty, and to the candidate of that
\* call; a call that ends with no upstream call having returned leaves it
\* as it was at the start of the call; a call that started with an empty
\* cache and got a response has set it to the candidate of that response,
\* also when the response did not parse.
C18_CacheFrame ==
  /\ [](/\ (Ended /\ ~SomeCallSucceeded) => cached_model_name = cache_at_start
        /\ (Ended /\ SomeCallSucceeded /\ cache_at_start = None) =>
             cached_model_name = LastCall.request.model_name
        /\ (Ended /\ cache_at_start # None) => cached_model_name = cache_at_start)
  /\ [][cached_model_name' # cached_model_name =>
          /\ cached_model_name = None
          /\ calls' = Append(calls, calls'[Len(calls')])
          /\ calls'[Len(calls')].outcome = "ok"
          /\ cached_model_name' = calls'[Len(calls')].request.model_name
          /\ cached_model_name' = AVAILABLE_MODELS[model_index + 1]]_vars

\* C18 happens: a call that started with an empty cache went past the first
\* candidate, the second returned a text that does not parse, and the cache
\* holds the second candidate.
C18_Witness ==
  /\ Ended
  /\ cache_at_start = None
  /\ LastCall.outcome = "ok"
  /\ LastCall.model_index = 1
  /\ data = ParseFailureData
  /\ cached_model_name = AVAILABLE_MODELS[2]

ResultFields ==
  {"regret_score", "reason", "intervention_strength", "llm_message", "simulation"}

\* the zero-score default of the handler: this reason prefix, this message
IsHandlerDefault(content, prefix, message) ==
  /\ content.regret_score = PyInt(0)
  /\ content.reason.t = "str"
  /\ StartsWith(content.reason.s, prefix)
  /\ content.intervention_strength = PyStr(S_NONE)
  /\ content.llm_message = PyStr(message)
  /\ content.simulation = PyStr(<<>>)

\* C19: when the call has ended, the /classify handler has answered with a
\* body of the five fields: status 200 and the result when classify_regret
\* returned, status 400 and the "Validation error" default when it raised
\* a ValueError, status 500 and the "Backend error" default when it raised
\* anything else.
C19_HandlerAnswers ==
  Ended =>
    /\ DOMAIN http_response.content = ResultFields
    /\ pc = "returned" =>
         /\ http_response.status_code = 200
         /\ http_response.content = result
    /\ (pc = "raised" /\ raised.type = "ValueError") =>
         /\ http_response.status_code = 400
         /\ IsHandlerDefault(http_response.content, S_ValidationErrorPrefix,
                             S_InvalidInput)
    /\ (pc = "raised" /\ raised.type # "ValueError") =>
         /\ http_response.status_code = 500
         /\ IsHandlerDefault(http_response.content, S_BackendErrorPrefix,
                             S_BackendErrorOccurred)

\* C19 happens: the score of the response is a word, int() raises the
\* ValueError out of classify_regret and the handler answers 400.
C19_Witness ==
  /\ pc = "raised"
  /\ response = Response(T_ScoreWord)
  /\ raised.type = "ValueError"
  /\ http_response.status_code = 400
  /\ http_response.content.llm_message = PyStr(S_InvalidInput)

====
